---- MODULE Spec2Model ----
(***************************************************************************)
(* The retrieval core of backend/app/core/rag_pipeline.py (RAGPipeline):   *)
(* the chunker _split_text, the indexer (index_document, remove_document), *)
(* semantic, keyword and hybrid search, get_document_chunks and get_stats, *)
(* over a ChromaDB collection and a SentenceTransformer embedding model.   *)
(*                                                                         *)
(* A text is a sequence of characters; a character is a one-token string.  *)
(* Python indices are zero-based: python text[i] is text[i + 1] here.      *)
(***************************************************************************)
EXTENDS Integers, Sequences, FiniteSets, TLC

VARIABLES
    chunk_size,     \* self.chunk_size
    chunk_overlap,  \* self.chunk_overlap
    collection,     \* self.collection: the stored rows, in insertion order
    op,             \* the public operation called last, with its arguments
    ret,            \* what that call returned to its caller
    raised,         \* TRUE iff that call let an exception reach its caller
    calls,          \* the collaborator calls that call issued, in order
    text,           \* _split_text: the argument
    start,          \* _split_text: the local start
    end,            \* _split_text: the local end, as the last pass left it
    chunks,         \* _split_text: the local chunks
    pc,             \* _split_text: position in the function
    iterations,     \* _split_text: completed passes of the while loop
    tasks           \* the requests given to the event loop, each a coroutine
                    \* of a public method with the position it has reached

vars == <<chunk_size, chunk_overlap, collection, op, ret, raised, calls,
          text, start, end, chunks, pc, iterations, tasks>>

indexVars == <<collection, op, ret, raised, calls>>
splitVars == <<text, start, end, chunks, pc, iterations>>

----------------------------------------------------------------------------
(* Bounds of the model.                                                    *)

MaxIterations == 6     \* passes of the _split_text loop that are followed
MaxSmallText == 4      \* longest text of the small-configuration chunker runs
MaxSmallChunk == 3     \* largest chunk_size of those runs
ShortLen == 2          \* length of the whitespace-only text indexed
MidLen == 600          \* length of the run of x in the two-chunk text
LongLen == 1000        \* length of the three-chunk text
MaxRows == 4           \* most rows the collection is filled with
MaxResults == 2        \* largest n_results asked for

----------------------------------------------------------------------------
(* Python helpers.                                                         *)

MaxOf(a, b) == IF a >= b THEN a ELSE b
MinOf(a, b) == IF a <= b THEN a ELSE b
SetMin(S) == CHOOSE m \in S : \A k \in S : m <= k
SetMax(S) == -SetMin({-k : k \in S})

Fill(c, n) == <<>> \o [i \in 1..n |-> c]

\* x = v, then F(x): v is computed once, however often F uses it
Let(v, F(_)) == CHOOSE y \in {F(x) : x \in {v}} : TRUE

\* str.strip() with no argument strips these (of the characters modelled)
Whitespace == {" ", "\n", "\t"}

\* text[i] for -len <= i < len
PyAt(s, i) == IF i < 0 THEN s[Len(s) + i + 1] ELSE s[i + 1]

\* a slice bound as python normalises it
PyBound(s, i) == IF i < 0 THEN MaxOf(Len(s) + i, 0) ELSE MinOf(i, Len(s))

\* text[a:b]
PySlice(s, a, b) ==
    IF PyBound(s, a) < PyBound(s, b)
    THEN SubSeq(s, PyBound(s, a) + 1, PyBound(s, b))
    ELSE <<>>

\* text.strip()
Strip(s) ==
    Let({i \in 1..Len(s) : s[i] \notin Whitespace}, LAMBDA solid :
        IF solid = {} THEN <<>> ELSE SubSeq(s, SetMin(solid), SetMax(solid)))

----------------------------------------------------------------------------
(* The chunker: RAGPipeline._split_text.                                   *)

\* the fullwidth terminators are written by their code points
sentence_endings == {".", "!", "?", "U+3002", "U+FF01", "U+FF1F"}

\* for i in range(hi, lo, -1): if Hit(i): break
\* text[i] raises IndexError when i < -len(text); hi < len(text) at both uses
ScanBack(s, hi, lo, Hit(_)) ==
    Let({i \in (lo + 1)..hi : i >= -Len(s) /\ Hit(i)}, LAMBDA hits :
        IF hits # {}
        THEN [found |-> TRUE, raised |-> FALSE, at |-> SetMax(hits)]
        ELSE [found |-> FALSE, raised |-> (lo + 1 <= hi /\ lo + 1 < -Len(s)),
              at |-> hi])

\* CutAt with the word boundary looked for first, the sentence ending
\* only when there is none
CutAtWordFirst(s, st, cs) ==
    Let(st + cs, LAMBDA end0 :
        IF ~(end0 < Len(s)) THEN [raised |-> FALSE, end |-> end0]
        ELSE Let(ScanBack(s, end0, MaxOf(st, end0 - 50), LAMBDA i :
                     PyAt(s, i) \in {" ", "\n"}),
             LAMBDA word :
                IF word.found THEN [raised |-> FALSE, end |-> word.at]
                ELSE IF word.raised THEN [raised |-> TRUE, end |-> end0]
                ELSE Let(ScanBack(s, end0, MaxOf(st, end0 - 100), LAMBDA i :
                             PyAt(s, i) \in sentence_endings
                             /\ i + 1 < Len(s)),
                     LAMBDA sent :
                        [raised |-> sent.raised,
                         end |-> IF sent.found THEN sent.at + 1
                                 ELSE end0])))

\* CutAt with a sentence ending looked for among the last 150 characters
CutAtLongLookback(s, st, cs) ==
    Let(st + cs, LAMBDA end0 :
        IF ~(end0 < Len(s)) THEN [raised |-> FALSE, end |-> end0]
        ELSE Let(ScanBack(s, end0, MaxOf(st, end0 - 150), LAMBDA i :
                     PyAt(s, i) \in sentence_endings /\ i + 1 < Len(s)),
             LAMBDA sent :
                IF sent.found THEN [raised |-> FALSE, end |-> sent.at + 1]
                ELSE IF sent.raised THEN [raised |-> TRUE, end |-> end0]
                ELSE Let(ScanBack(s, end0, MaxOf(st, end0 - 50), LAMBDA i :
                             PyAt(s, i) \in {" ", "\n"}),
                     LAMBDA word :
                        [raised |-> word.raised,
                         end |-> IF word.found THEN word.at ELSE end0])))

\* CutAt with the cut one character further after a sentence ending
CutAtPastEnding(s, st, cs) ==
    Let(st + cs, LAMBDA end0 :
        IF ~(end0 < Len(s)) THEN [raised |-> FALSE, end |-> end0]
        ELSE Let(ScanBack(s, end0, MaxOf(st, end0 - 100), LAMBDA i :
                     PyAt(s, i) \in sentence_endings /\ i + 1 < Len(s)),
             LAMBDA sent :
                IF sent.found THEN [raised |-> FALSE, end |-> sent.at + 2]
                ELSE IF sent.raised THEN [raised |-> TRUE, end |-> end0]
                ELSE Let(ScanBack(s, end0, MaxOf(st, end0 - 50), LAMBDA i :
                             PyAt(s, i) \in {" ", "\n"}),
                     LAMBDA word :
                        [raised |-> word.raised,
                         end |-> IF word.found THEN word.at ELSE end0])))

\* where one pass of the while loop, from the local start st, cuts
CutAt(s, st, cs) ==
    Let(st + cs, LAMBDA end0 :
        IF ~(end0 < Len(s)) THEN [raised |-> FALSE, end |-> end0]
        ELSE Let(ScanBack(s, end0, MaxOf(st, end0 - 100), LAMBDA i :
                     PyAt(s, i) \in sentence_endings /\ i + 1 < Len(s)),
             LAMBDA sent :
                IF sent.found THEN [raised |-> FALSE, end |-> sent.at + 1]
                ELSE IF sent.raised THEN [raised |-> TRUE, end |-> end0]
                ELSE Let(ScanBack(s, end0, MaxOf(st, end0 - 50), LAMBDA i :
                             PyAt(s, i) \in {" ", "\n"}),
                     LAMBDA word :
                        [raised |-> word.raised,
                         end |-> IF word.found THEN word.at ELSE end0])))

\* SplitWindow with the overlap added to the cut instead of taken from it
SplitWindowSkips(s, st, cs, ov) ==
    Let(CutAt(s, st, cs), LAMBDA cut :
        [raised |-> cut.raised,
         end    |-> cut.end,
         chunk  |-> Strip(PySlice(s, st, cut.end)),
         start  |-> IF cut.end < Len(s) THEN cut.end + ov ELSE cut.end])

\* SplitWindow with the next start at the cut: no overlap is taken
SplitWindowNoOverlap(s, st, cs, ov) ==
    Let(CutAt(s, st, cs), LAMBDA cut :
        [raised |-> cut.raised,
         end    |-> cut.end,
         chunk  |-> Strip(PySlice(s, st, cut.end)),
         start  |-> cut.end])

\* SplitWindow with the overlap taken from every cut, the last one too
SplitWindowOverlapAtEnd(s, st, cs, ov) ==
    Let(CutAt(s, st, cs), LAMBDA cut :
        [raised |-> cut.raised,
         end    |-> cut.end,
         chunk  |-> Strip(PySlice(s, st, cut.end)),
         start  |-> cut.end - ov])

\* one pass of the while loop: the cut, the chunk and the next start
SplitWindow(s, st, cs, ov) ==
    Let(CutAt(s, st, cs), LAMBDA cut :
        [raised |-> cut.raised,
         end    |-> cut.end,
         chunk  |-> Strip(PySlice(s, st, cut.end)),
         start  |-> IF cut.end < Len(s) THEN cut.end - ov ELSE cut.end])

\* SplitLoop without "if chunk:": empty chunks are kept
RECURSIVE SplitLoopKeepsEmpty(_, _, _, _, _)
SplitLoopKeepsEmpty(s, st, acc, cs, ov) ==
    IF ~(st < Len(s)) THEN [raised |-> FALSE, chunks |-> acc]
    ELSE Let(SplitWindow(s, st, cs, ov), LAMBDA w :
            IF w.raised THEN [raised |-> TRUE, chunks |-> <<>>]
            ELSE SplitLoopKeepsEmpty(s, w.start, Append(acc, w.chunk),
                                     cs, ov))

RECURSIVE SplitLoop(_, _, _, _, _)
SplitLoop(s, st, acc, cs, ov) ==
    IF ~(st < Len(s)) THEN [raised |-> FALSE, chunks |-> acc]
    ELSE Let(SplitWindow(s, st, cs, ov), LAMBDA w :
            IF w.raised THEN [raised |-> TRUE, chunks |-> <<>>]
            ELSE SplitLoop(s, w.start,
                     IF w.chunk # <<>> THEN Append(acc, w.chunk) ELSE acc,
                     cs, ov))

\* the whole call; terminates only when every pass advances start
split_text(s, cs, ov) ==
    IF s = <<>> THEN [raised |-> FALSE, chunks |-> <<>>]
    ELSE SplitLoop(s, 0, <<>>, cs, ov)

----------------------------------------------------------------------------
(* Numbers.  Python floats are modelled by exact rationals [n, d], d > 0,  *)
(* kept in lowest terms so that equal numbers are equal records.           *)

RECURSIVE GCD(_, _)
GCD(a, b) == IF b = 0 THEN a ELSE GCD(b, a % b)

Abs(a) == IF a < 0 THEN -a ELSE a

Rat(n, d) ==
    LET sn == IF d < 0 THEN -n ELSE n
        sd == Abs(d)
        g == GCD(Abs(sn), sd)
    IN  [n |-> sn \div g, d |-> sd \div g]

RInt(k) == [n |-> k, d |-> 1]
RAdd(a, b) == Rat(a.n * b.d + b.n * a.d, a.d * b.d)
RSub(a, b) == Rat(a.n * b.d - b.n * a.d, a.d * b.d)
RMul(a, b) == Rat(a.n * b.n, a.d * b.d)
RDiv(a, b) == Rat(a.n * b.d, a.d * b.n)        \* b # 0
RLess(a, b) == a.n * b.d < b.n * a.d
RLeq(a, b) == a.n * b.d <= b.n * a.d
RMin(a, b) == IF RLeq(a, b) THEN a ELSE b

\* list.sort(key=..., reverse=True): Before(x, y) iff x's key is greater;
\* python's sort is stable, also under reverse=True
SortBy(s, Before(_, _)) ==
    Let(<<>> \o [i \in 1..Len(s) |->
            Cardinality({j \in 1..Len(s) :
                \/ Before(s[j], s[i])
                \/ (~Before(s[i], s[j]) /\ j < i)}) + 1],
        LAMBDA rank :
            <<>> \o
            [k \in 1..Len(s) |-> s[CHOOSE i \in 1..Len(s) : rank[i] = k]])

\* {**base, **extra}
Merge(base, extra) ==
    [k \in DOMAIN base \cup DOMAIN extra |->
        IF k \in DOMAIN extra THEN extra[k] ELSE base[k]]

\* [x for x in s if Keep(x)]
SelectRows(s, Keep(_)) ==
    Let({i \in 1..Len(s) : Keep(s[i])}, LAMBDA kept :
        <<>> \o [k \in 1..Cardinality(kept) |->
            s[CHOOSE i \in kept : Cardinality({j \in kept : j <= i}) = k]])

----------------------------------------------------------------------------
(* The Embedding Provider: SentenceTransformer('all-MiniLM-L6-v2').encode. *)
(* The model is a fixed map from texts to vectors.  Here the vectors are   *)
(* the six unit vectors of the plane 60 degrees apart, named 0..5, and the *)
(* map is by length, so equal texts get equal vectors.                     *)

Embed(t) == Len(t) % 6

\* cosine distance 1 - cos(angle) between two of the six vectors
CosineDistance(u, v) ==
    LET k == (u - v) % 6
    IN  IF k = 0 THEN Rat(0, 1)
        ELSE IF k \in {1, 5} THEN Rat(1, 2)
        ELSE IF k \in {2, 4} THEN Rat(3, 2)
        ELSE Rat(2, 1)

----------------------------------------------------------------------------
(* The Vector Index: the ChromaDB collection (hnsw:space = cosine).        *)
(* A row is [id, document, metadata, embedding]; rows keep insertion order.*)

\* where=None, where={"document_id": d}, where={"document_id": {"$in": ds}}
WhereAll == [kind |-> "all"]
WhereEq(d) == [kind |-> "eq", value |-> d]
WhereIn(ds) == [kind |-> "in", values |-> ds]

Matches(row, where) ==
    \/ where.kind = "all"
    \/ /\ where.kind = "eq"
       /\ "document_id" \in DOMAIN row.metadata
       /\ row.metadata["document_id"] = where.value
    \/ /\ where.kind = "in"
       /\ "document_id" \in DOMAIN row.metadata
       /\ \E k \in 1..Len(where.values) :
              where.values[k] = row.metadata["document_id"]

RowIds(rows) == <<>> \o [k \in 1..Len(rows) |-> rows[k].id]
IdSet(rows) == {rows[k].id : k \in 1..Len(rows)}

\* collection.get(where=...)
CollGet(coll, where) == SelectRows(coll, LAMBDA r : Matches(r, where))

\* collection.add as an upsert: a row whose id is stored is replaced
CollAddUpsert(coll, rows) ==
    Let(IdSet(coll), LAMBDA stored :
        (<<>> \o [k \in 1..Len(coll) |->
            IF \E j \in 1..Len(rows) : rows[j].id = coll[k].id
            THEN rows[CHOOSE j \in 1..Len(rows) : rows[j].id = coll[k].id]
            ELSE coll[k]])
        \o SelectRows(rows, LAMBDA r : r.id \notin stored))

\* collection.add(...): a row whose id is already stored is skipped
CollAdd(coll, rows) ==
    Let(IdSet(coll), LAMBDA stored :
        coll \o SelectRows(rows, LAMBDA r : r.id \notin stored))

\* collection.delete(ids=...)
CollDelete(coll, ids) == SelectRows(coll, LAMBDA r : r.id \notin ids)

\* collection.query(...): the n nearest rows that match, nearest first
CollQuery(coll, qvec, n, where) ==
    Let(CollGet(coll, where), LAMBDA cand :
        Let(SortBy(cand, LAMBDA x, y :
                RLess(CosineDistance(qvec, x.embedding),
                      CosineDistance(qvec, y.embedding))),
        LAMBDA near : SubSeq(near, 1, MinOf(n, Len(near)))))

\* collection.count()
CollCount(coll) == Len(coll)

\* a collaborator call as logged: its name, what it was given, whether it
\* returned (ok) or raised
Call(fn, arg, ok) == [fn |-> fn, arg |-> arg, ok |-> ok]

----------------------------------------------------------------------------
(* The values a public method hands back: None, a bool, an int, a list; a  *)
(* dict is a record of its keys.                                           *)

PyNone == [none |-> TRUE]
PyBool(b) == [bool |-> b]
PyInt(n) == [int |-> n]
PyList(items) == [list |-> items]

----------------------------------------------------------------------------
(* What a call gives: exc (an exception leaves the block), error (its      *)
(* message), ret (the value returned), collection (the rows afterwards),   *)
(* calls (the collaborator calls issued).                                  *)

Returns(value, coll, log) ==
    [exc |-> FALSE, error |-> "", ret |-> value, collection |-> coll,
     calls |-> log]

Raises(message, coll, log) ==
    [exc |-> TRUE, error |-> message, ret |-> PyNone, collection |-> coll,
     calls |-> log]

\* except Exception as e: return value
Except(tried, value) ==
    IF tried.exc THEN Returns(value, tried.collection, tried.calls)
    ELSE tried

----------------------------------------------------------------------------
(* The indexer: index_document and remove_document.                        *)

\* ChunkId without the index
ChunkIdNoIndex(document_id, i) == document_id \o "_chunk_"

\* f"{document_id}_chunk_{i}"
ChunkId(document_id, i) == document_id \o "_chunk_" \o ToString(i)

\* chunk[:100] + "..." if len(chunk) > 100 else chunk
ChunkText(chunk) ==
    IF Len(chunk) > 100 THEN SubSeq(chunk, 1, 100) \o <<".", ".", ".">>
    ELSE chunk

\* the metadata of chunk i; the caller's metadata is merged last
ChunkMetadata(document_id, i, chunk, metadata) ==
    Merge([document_id |-> document_id,
           chunk_index |-> i,
           chunk_text  |-> ChunkText(chunk)],
          metadata)

\* documents, metadatas, ids and embeddings, row by row
ChunkRows(document_id, chs, metadata) ==
    <<>> \o [k \in 1..Len(chs) |->
        [id        |-> ChunkId(document_id, k - 1),
         document  |-> chs[k],
         metadata  |-> ChunkMetadata(document_id, k - 1, chs[k], metadata),
         embedding |-> Embed(chs[k])]]

\* IndexDocumentTry embedding chunk by chunk: one encode call per chunk
IndexDocumentTryPerChunk(document_id, t, metadata, faults) ==
    Let(split_text(t, chunk_size, chunk_overlap), LAMBDA sp :
        IF sp.raised THEN Raises("IndexError", collection, <<>>)
        ELSE IF sp.chunks = <<>> THEN Returns(PyBool(FALSE), collection, <<>>)
        ELSE Let(<<>> \o [k \in 1..Len(sp.chunks) |->
                     Call("encode", [sentences |-> <<sp.chunks[k]>>],
                          "encode" \notin faults)],
             LAMBDA encodes :
                IF "encode" \in faults
                THEN Raises("encode", collection, <<encodes[1]>>)
                ELSE Let(ChunkRows(document_id, sp.chunks, metadata),
                     LAMBDA rows :
                        Let(Call("add", [rows |-> rows], "add" \notin faults),
                        LAMBDA add :
                            IF ~add.ok
                            THEN Raises("add", collection, encodes \o <<add>>)
                            ELSE Returns(PyBool(TRUE),
                                         CollAdd(collection, rows),
                                         encodes \o <<add>>)))))

\* IndexDocumentTry without "if not chunks: return False"
IndexDocumentTryNoChunkCheck(document_id, t, metadata, faults) ==
    Let(split_text(t, chunk_size, chunk_overlap), LAMBDA sp :
        IF sp.raised THEN Raises("IndexError", collection, <<>>)
        ELSE Let(Call("encode", [sentences |-> sp.chunks],
                 "encode" \notin faults),
             LAMBDA encode :
                IF ~encode.ok THEN Raises("encode", collection, <<encode>>)
                ELSE Let(ChunkRows(document_id, sp.chunks, metadata),
                     LAMBDA rows :
                        Let(Call("add", [rows |-> rows], "add" \notin faults),
                        LAMBDA add :
                            IF ~add.ok
                            THEN Raises("add", collection, <<encode, add>>)
                            ELSE Returns(PyBool(TRUE),
                                         CollAdd(collection, rows),
                                         <<encode, add>>)))))

\* the try block of index_document
IndexDocumentTry(document_id, t, metadata, faults) ==
    Let(split_text(t, chunk_size, chunk_overlap), LAMBDA sp :
        IF sp.raised THEN Raises("IndexError", collection, <<>>)
        ELSE IF sp.chunks = <<>> THEN Returns(PyBool(FALSE), collection, <<>>)
        ELSE Let(Call("encode", [sentences |-> sp.chunks],
                 "encode" \notin faults),
             LAMBDA encode :
                IF ~encode.ok THEN Raises("encode", collection, <<encode>>)
                ELSE Let(ChunkRows(document_id, sp.chunks, metadata),
                     LAMBDA rows :
                        Let(Call("add", [rows |-> rows], "add" \notin faults),
                        LAMBDA add :
                            IF ~add.ok
                            THEN Raises("add", collection, <<encode, add>>)
                            ELSE Returns(PyBool(TRUE),
                                         CollAdd(collection, rows),
                                         <<encode, add>>)))))

index_document(document_id, t, metadata, faults) ==
    Let(IndexDocumentTry(document_id, t, metadata, faults), LAMBDA tried :
        Except(tried, PyBool(FALSE)))

\* RemoveDocumentTry with the get unfiltered: every stored id is deleted
RemoveDocumentTryUnfiltered(document_id, faults) ==
    Let(Call("get", [where |-> WhereAll], "get" \notin faults), LAMBDA get :
        IF ~get.ok THEN Raises("get", collection, <<get>>)
        ELSE Let(CollGet(collection, WhereAll), LAMBDA results :
            IF results # <<>>
            THEN Let(Call("delete", [ids |-> RowIds(results)],
                     "delete" \notin faults),
                 LAMBDA delete :
                    IF ~delete.ok
                    THEN Raises("delete", collection, <<get, delete>>)
                    ELSE Returns(PyBool(TRUE),
                                 CollDelete(collection, IdSet(results)),
                                 <<get, delete>>))
            ELSE Returns(PyBool(FALSE), collection, <<get>>)))

\* RemoveDocumentTry without "if chunk_ids:": delete is issued regardless
RemoveDocumentTryAlwaysDeletes(document_id, faults) ==
    Let(Call("get", [where |-> WhereEq(document_id)],
             "get" \notin faults), LAMBDA get :
        IF ~get.ok THEN Raises("get", collection, <<get>>)
        ELSE Let(CollGet(collection, WhereEq(document_id)), LAMBDA results :
            Let(Call("delete", [ids |-> RowIds(results)],
                     "delete" \notin faults),
            LAMBDA delete :
                IF ~delete.ok
                THEN Raises("delete", collection, <<get, delete>>)
                ELSE Returns(PyBool(TRUE),
                             CollDelete(collection, IdSet(results)),
                             <<get, delete>>))))

\* the try block of remove_document
RemoveDocumentTry(document_id, faults) ==
    Let(Call("get", [where |-> WhereEq(document_id)],
             "get" \notin faults), LAMBDA get :
        IF ~get.ok THEN Raises("get", collection, <<get>>)
        ELSE Let(CollGet(collection, WhereEq(document_id)), LAMBDA results :
            IF results # <<>>
            THEN Let(Call("delete", [ids |-> RowIds(results)],
                     "delete" \notin faults),
                 LAMBDA delete :
                    IF ~delete.ok
                    THEN Raises("delete", collection, <<get, delete>>)
                    ELSE Returns(PyBool(TRUE),
                                 CollDelete(collection, IdSet(results)),
                                 <<get, delete>>))
            ELSE Returns(PyBool(FALSE), collection, <<get>>)))

remove_document(document_id, faults) ==
    Let(RemoveDocumentTry(document_id, faults), LAMBDA tried :
        Except(tried, PyBool(FALSE)))

----------------------------------------------------------------------------
(* Semantic search: query.                                                 *)

\* document_ids: Optional[List[str]]
NoIds == [given |-> FALSE]
Ids(ds) == [given |-> TRUE, ids |-> ds]

\* if document_ids:
Truthy(document_ids) == document_ids.given /\ document_ids.ids # <<>>

WhereClause(document_ids) ==
    IF Truthy(document_ids) THEN WhereIn(document_ids.ids) ELSE WhereAll

\* the rows the index returned, each with its distance and confidence
Scored(results, query_embedding) ==
    <<>> \o [i \in 1..Len(results) |->
        Let(CosineDistance(query_embedding, results[i].embedding),
        LAMBDA distance :
            [id         |-> results[i].id,
             document   |-> results[i].document,
             metadata   |-> results[i].metadata,
             confidence |-> RSub(RInt(1), distance),
             distance   |-> distance])]

\* QueryTry without "if confidence >= min_confidence"
QueryTryUnfiltered(query_text, n_results, document_ids, min_confidence, faults) ==
    Let(Call("encode", [sentences |-> <<query_text>>], "encode" \notin faults),
    LAMBDA encode :
        IF ~encode.ok THEN Raises("encode", collection, <<encode>>)
        ELSE Let(Call("query", [n_results |-> n_results,
                                where |-> WhereClause(document_ids)],
                      "query" \notin faults /\ n_results > 0),
        LAMBDA asked :
            IF ~asked.ok THEN Raises("query", collection, <<encode, asked>>)
            ELSE Let(CollQuery(collection, Embed(query_text), n_results,
                               WhereClause(document_ids)),
            LAMBDA results :
                Let(Scored(results, Embed(query_text)),
                LAMBDA kept :
                    Let(SortBy(kept, LAMBDA x, y :
                            RLess(y.confidence, x.confidence)),
                    LAMBDA processed_results :
                        Returns([query   |-> query_text,
                                 results |-> processed_results,
                                 total_found |-> Len(processed_results),
                                 searched_documents |->
                                     IF Truthy(document_ids)
                                     THEN PyInt(Len(document_ids.ids))
                                     ELSE PyNone],
                                collection, <<encode, asked>>))))))

\* QueryTry sorting ascending and then reversing: equal confidences
\* change places
QueryTryTiesReversed(query_text, n_results, document_ids, min_confidence, faults) ==
    Let(Call("encode", [sentences |-> <<query_text>>], "encode" \notin faults),
    LAMBDA encode :
        IF ~encode.ok THEN Raises("encode", collection, <<encode>>)
        ELSE Let(Call("query", [n_results |-> n_results,
                                where |-> WhereClause(document_ids)],
                      "query" \notin faults /\ n_results > 0),
        LAMBDA asked :
            IF ~asked.ok THEN Raises("query", collection, <<encode, asked>>)
            ELSE Let(CollQuery(collection, Embed(query_text), n_results,
                               WhereClause(document_ids)),
            LAMBDA results :
                Let(SelectRows(Scored(results, Embed(query_text)),
                        LAMBDA r : RLeq(min_confidence, r.confidence)),
                LAMBDA kept :
                    Let(Let(SortBy(kept, LAMBDA x, y :
                                RLess(x.confidence, y.confidence)),
                        LAMBDA up : <<>> \o [k \in 1..Len(up) |->
                                                up[Len(up) - k + 1]]),
                    LAMBDA processed_results :
                        Returns([query   |-> query_text,
                                 results |-> processed_results,
                                 total_found |-> Len(processed_results),
                                 searched_documents |->
                                     IF Truthy(document_ids)
                                     THEN PyInt(Len(document_ids.ids))
                                     ELSE PyNone],
                                collection, <<encode, asked>>))))))

\* the try block of query; chromadb rejects n_results <= 0
QueryTry(query_text, n_results, document_ids, min_confidence, faults) ==
    Let(Call("encode", [sentences |-> <<query_text>>], "encode" \notin faults),
    LAMBDA encode :
        IF ~encode.ok THEN Raises("encode", collection, <<encode>>)
        ELSE Let(Call("query", [n_results |-> n_results,
                                where |-> WhereClause(document_ids)],
                      "query" \notin faults /\ n_results > 0),
        LAMBDA asked :
            IF ~asked.ok THEN Raises("query", collection, <<encode, asked>>)
            ELSE Let(CollQuery(collection, Embed(query_text), n_results,
                               WhereClause(document_ids)),
            LAMBDA results :
                Let(SelectRows(Scored(results, Embed(query_text)),
                        LAMBDA r : RLeq(min_confidence, r.confidence)),
                LAMBDA kept :
                    Let(SortBy(kept, LAMBDA x, y :
                            RLess(y.confidence, x.confidence)),
                    LAMBDA processed_results :
                        Returns([query   |-> query_text,
                                 results |-> processed_results,
                                 total_found |-> Len(processed_results),
                                 searched_documents |->
                                     IF Truthy(document_ids)
                                     THEN PyInt(Len(document_ids.ids))
                                     ELSE PyNone],
                                collection, <<encode, asked>>))))))

\* the failure value of query and of hybrid_search
Failure(query_text, message) ==
    [query |-> query_text, results |-> <<>>, total_found |-> 0,
     error |-> message]

query(query_text, n_results, document_ids, min_confidence, faults) ==
    Let(QueryTry(query_text, n_results, document_ids, min_confidence, faults),
        LAMBDA tried : Except(tried, Failure(query_text, tried.error)))

\* the try block of get_document_chunks
GetDocumentChunksTry(document_id, faults) ==
    Let(Call("get", [where |-> WhereEq(document_id)],
             "get" \notin faults), LAMBDA get :
        IF ~get.ok THEN Raises("get", collection, <<get>>)
        ELSE Let(CollGet(collection, WhereEq(document_id)), LAMBDA results :
            Let(<<>> \o [i \in 1..Len(results) |->
                    [id       |-> results[i].id,
                     document |-> results[i].document,
                     metadata |-> results[i].metadata]],
            LAMBDA listed :
                IF \E i \in 1..Len(listed) :
                       "chunk_index" \notin DOMAIN listed[i].metadata
                THEN Raises("KeyError", collection, <<get>>)
                ELSE Returns(PyList(SortBy(listed, LAMBDA x, y :
                                 x.metadata["chunk_index"]
                                     < y.metadata["chunk_index"])),
                             collection, <<get>>))))

get_document_chunks(document_id, faults) ==
    Let(GetDocumentChunksTry(document_id, faults), LAMBDA tried :
        Except(tried, PyList(<<>>)))

----------------------------------------------------------------------------
(* Keyword search: _keyword_search.                                        *)

\* str.lower(), on the letters modelled
LowerChar(c) == CASE c = "X" -> "x" [] c = "Y" -> "y" [] OTHER -> c
Lower(s) == <<>> \o [i \in 1..Len(s) |-> LowerChar(s[i])]

\* str.split(): the maximal runs of non-whitespace, in order
SplitWords(s) ==
    Let({i \in 1..Len(s) :
            /\ s[i] \notin Whitespace
            /\ (i = 1 \/ s[i - 1] \in Whitespace)},
    LAMBDA firsts :
        <<>> \o [k \in 1..Cardinality(firsts) |->
            Let(CHOOSE f \in firsts : Cardinality({g \in firsts : g <= f}) = k,
            LAMBDA i :
                SubSeq(s, i, SetMin({j \in i..Len(s) :
                                 j = Len(s) \/ s[j + 1] \in Whitespace})))])

\* the (one-based) positions where term occurs in doc
Occurrences(doc, term) ==
    {p \in 1..(Len(doc) - Len(term) + 1) :
        \A k \in 1..Len(term) : doc[p + k - 1] = term[k]}

\* str.count(term): occurrences counted left to right without overlap
RECURSIVE CountFrom(_, _, _)
CountFrom(occ, width, from) ==
    Let({p \in occ : p >= from}, LAMBDA rest :
        IF rest = {} THEN 0
        ELSE 1 + CountFrom(occ, width, SetMin(rest) + width))

Count(doc, term) ==
    Let(Occurrences(doc, term), LAMBDA occ :
        IF Len(term) = 1 THEN Cardinality(occ)
        ELSE CountFrom(occ, Len(term), 1))

\* the score of one document: the counts of the terms it contains, summed
RECURSIVE Score(_, _)
Score(doc_lower, query_terms) ==
    IF query_terms = <<>> THEN 0
    ELSE Count(doc_lower, Head(query_terms))
         + Score(doc_lower, Tail(query_terms))

\* the documents that score, each with its score and confidence
KeywordHits(all_docs, query_terms) ==
    Let(<<>> \o [i \in 1..Len(all_docs) |->
            Score(Lower(all_docs[i].document), query_terms)],
    LAMBDA score :
        Let({i \in 1..Len(all_docs) : score[i] > 0}, LAMBDA hit :
            <<>> \o [k \in 1..Cardinality(hit) |->
                Let(CHOOSE i \in hit : Cardinality({j \in hit : j <= i}) = k,
                LAMBDA i :
                    [id         |-> all_docs[i].id,
                     document   |-> all_docs[i].document,
                     metadata   |-> all_docs[i].metadata,
                     confidence |-> RMin(Rat(score[i], Len(query_terms)),
                                         RInt(1)),
                     score      |-> score[i]])]))

\* KeywordSearchTry sorting by the clamped confidence instead of the score
KeywordSearchTryByConfidence(query_text, n_results, document_ids, faults) ==
    Let(Call("get", [where |-> WhereClause(document_ids)], "get" \notin faults),
    LAMBDA get :
        IF ~get.ok THEN Raises("get", collection, <<get>>)
        ELSE Let(CollGet(collection, WhereClause(document_ids)),
        LAMBDA all_docs :
            Let(SplitWords(Lower(query_text)), LAMBDA query_terms :
                Let(KeywordHits(all_docs, query_terms), LAMBDA results :
                    Let(SortBy(results, LAMBDA x, y :
                            RLess(y.confidence, x.confidence)),
                    LAMBDA sorted :
                        Returns(PySlice(sorted, 0, n_results), collection,
                                <<get>>))))))

\* the try block of _keyword_search
KeywordSearchTry(query_text, n_results, document_ids, faults) ==
    Let(Call("get", [where |-> WhereClause(document_ids)], "get" \notin faults),
    LAMBDA get :
        IF ~get.ok THEN Raises("get", collection, <<get>>)
        ELSE Let(CollGet(collection, WhereClause(document_ids)),
        LAMBDA all_docs :
            Let(SplitWords(Lower(query_text)), LAMBDA query_terms :
                Let(KeywordHits(all_docs, query_terms), LAMBDA results :
                    Let(SortBy(results, LAMBDA x, y : x.score > y.score),
                    LAMBDA sorted :
                        Returns(PySlice(sorted, 0, n_results), collection,
                                <<get>>))))))

keyword_search(query_text, n_results, document_ids, faults) ==
    Let(KeywordSearchTry(query_text, n_results, document_ids, faults),
        LAMBDA tried : Except(tried, <<>>))

----------------------------------------------------------------------------
(* The fusion ranker: _combine_search_results and hybrid_search.           *)

\* FromSemantic with the two weights exchanged
FromSemanticSwapped(semantic_results, keyword_results, kw, sw) ==
    <<>> \o [i \in 1..Len(semantic_results) |->
        Let(semantic_results[i], LAMBDA result :
            Let({j \in 1..Len(keyword_results) :
                    keyword_results[j].id = result.id},
            LAMBDA both :
                IF both = {}
                THEN Merge(result,
                       [semantic_confidence |-> result.confidence,
                        keyword_confidence  |-> RInt(0),
                        combined_confidence |->
                            RMul(result.confidence, kw)])
                ELSE Let(keyword_results[SetMax(both)].confidence, LAMBDA k :
                        Merge(result,
                          [semantic_confidence |-> result.confidence,
                           keyword_confidence  |-> k,
                           combined_confidence |->
                               RAdd(RMul(result.confidence, kw),
                                    RMul(k, sw))]))))]

\* result_map after the loop over the semantic results and the part of the
\* loop over the keyword results that updates them
FromSemantic(semantic_results, keyword_results, kw, sw) ==
    <<>> \o [i \in 1..Len(semantic_results) |->
        Let(semantic_results[i], LAMBDA result :
            Let({j \in 1..Len(keyword_results) :
                    keyword_results[j].id = result.id},
            LAMBDA both :
                IF both = {}
                THEN Merge(result,
                       [semantic_confidence |-> result.confidence,
                        keyword_confidence  |-> RInt(0),
                        combined_confidence |->
                            RMul(result.confidence, sw)])
                ELSE Let(keyword_results[SetMax(both)].confidence, LAMBDA k :
                        Merge(result,
                          [semantic_confidence |-> result.confidence,
                           keyword_confidence  |-> k,
                           combined_confidence |->
                               RAdd(RMul(result.confidence, sw),
                                    RMul(k, kw))]))))]

\* the entries the loop over the keyword results adds to result_map
FromKeyword(semantic_results, keyword_results, kw) ==
    Let(SelectRows(keyword_results, LAMBDA r :
            \A i \in 1..Len(semantic_results) :
                semantic_results[i].id # r.id),
    LAMBDA keyword_only :
        <<>> \o [j \in 1..Len(keyword_only) |->
            Merge(keyword_only[j],
                  [semantic_confidence |-> RInt(0),
                   keyword_confidence  |-> keyword_only[j].confidence,
                   combined_confidence |->
                       RMul(keyword_only[j].confidence, kw)])])

\* combine_search_results without the final sort
combine_search_results_unsorted(semantic_results, keyword_results, keyword_weight, semantic_weight) ==
    Let(RAdd(keyword_weight, semantic_weight), LAMBDA total_weight :
        IF total_weight.n = 0
        THEN Raises("float division by zero", collection, <<>>)
        ELSE Let(RDiv(keyword_weight, total_weight), LAMBDA kw :
            Let(RDiv(semantic_weight, total_weight), LAMBDA sw :
                Returns(FromSemantic(semantic_results, keyword_results,
                                     kw, sw)
                        \o FromKeyword(semantic_results, keyword_results,
                                       kw),
                        collection, <<>>))))

\* raises ZeroDivisionError when the weights sum to zero; it has no try
combine_search_results(semantic_results, keyword_results, keyword_weight, semantic_weight) ==
    Let(RAdd(keyword_weight, semantic_weight), LAMBDA total_weight :
        IF total_weight.n = 0
        THEN Raises("float division by zero", collection, <<>>)
        ELSE Let(RDiv(keyword_weight, total_weight), LAMBDA kw :
            Let(RDiv(semantic_weight, total_weight), LAMBDA sw :
                Let(FromSemantic(semantic_results, keyword_results, kw, sw)
                    \o FromKeyword(semantic_results, keyword_results, kw),
                LAMBDA result_map :
                    Returns(SortBy(result_map, LAMBDA x, y :
                                RLess(y.combined_confidence,
                                      x.combined_confidence)),
                            collection, <<>>)))))

\* the try block of hybrid_search; query is called with its default
\* min_confidence = 0.5
HybridSearchTry(query_text, n_results, document_ids, keyword_weight, semantic_weight, faults) ==
    Let(query(query_text, n_results * 2, document_ids, Rat(1, 2), faults),
    LAMBDA semantic_results :
        IF semantic_results.exc THEN semantic_results
        ELSE Let(keyword_search(query_text, n_results * 2, document_ids,
                                faults),
        LAMBDA keyword_results :
            Let(semantic_results.calls \o keyword_results.calls, LAMBDA log :
                IF keyword_results.exc
                THEN Raises(keyword_results.error, collection, log)
                ELSE Let(combine_search_results(semantic_results.ret.results,
                             keyword_results.ret, keyword_weight,
                             semantic_weight),
                LAMBDA combined_results :
                    IF combined_results.exc
                    THEN Raises(combined_results.error, collection, log)
                    ELSE Let(PySlice(combined_results.ret, 0, n_results),
                    LAMBDA final_results :
                        Returns([query   |-> query_text,
                                 results |-> final_results,
                                 total_found |-> Len(final_results),
                                 semantic_count |->
                                     Len(semantic_results.ret.results),
                                 keyword_count |->
                                     Len(keyword_results.ret)],
                                collection, log))))))

\* hybrid_search with its body outside the try
hybrid_search_unguarded(query_text, n_results, document_ids, keyword_weight, semantic_weight, faults) ==
    HybridSearchTry(query_text, n_results, document_ids, keyword_weight,
                    semantic_weight, faults)

hybrid_search(query_text, n_results, document_ids, keyword_weight, semantic_weight, faults) ==
    Let(HybridSearchTry(query_text, n_results, document_ids, keyword_weight,
                        semantic_weight, faults),
        LAMBDA tried : Except(tried, Failure(query_text, tried.error)))

----------------------------------------------------------------------------
(* get_stats.                                                              *)

GetStatsTry(faults) ==
    Let(Call("count", PyNone, "count" \notin faults), LAMBDA count :
        IF ~count.ok THEN Raises("count", collection, <<count>>)
        ELSE Returns([total_chunks    |-> CollCount(collection),
                      collection_name |-> "documents",
                      embedding_model |-> "all-MiniLM-L6-v2",
                      chunk_size      |-> chunk_size,
                      chunk_overlap   |-> chunk_overlap],
                     collection, <<count>>))

get_stats(faults) ==
    Let(GetStatsTry(faults), LAMBDA tried :
        Except(tried, [error |-> tried.error]))

----------------------------------------------------------------------------
(* _split_text, one step at a time.                                        *)

SplitEnter ==
    /\ pc = "entry"
    /\ IF text = <<>>
       THEN pc' = "return" /\ UNCHANGED <<start, chunks>>
       ELSE pc' = "while" /\ start' = 0 /\ chunks' = <<>>
    /\ UNCHANGED <<chunk_size, chunk_overlap, text, end, iterations,
                   indexVars, tasks>>

SplitIterate ==
    /\ pc = "while"
    /\ start < Len(text)
    /\ iterations < MaxIterations
    /\ \E w \in {SplitWindow(text, start, chunk_size, chunk_overlap)} :
          IF w.raised
          THEN pc' = "raise" /\ UNCHANGED <<start, end, chunks>>
          ELSE /\ pc' = "while"
               /\ end' = w.end
               /\ start' = w.start
               /\ chunks' = IF w.chunk # <<>> THEN Append(chunks, w.chunk)
                            ELSE chunks
    /\ iterations' = iterations + 1
    /\ UNCHANGED <<chunk_size, chunk_overlap, text, indexVars, tasks>>

SplitReturn ==
    /\ pc = "while"
    /\ ~(start < Len(text))
    /\ pc' = "return"
    /\ UNCHANGED <<chunk_size, chunk_overlap, text, start, end, chunks,
                   iterations, indexVars, tasks>>

SplitNext == SplitEnter \/ SplitIterate \/ SplitReturn

RECURSIVE TextsOver(_, _)
TextsOver(A, n) ==
    IF n = 0 THEN {<<>>}
    ELSE LET shorter == TextsOver(A, n - 1)
         IN  shorter \cup {Append(t, c) : t \in shorter, c \in A}

IdleIndex ==
    /\ collection = <<>>
    /\ op = [name |-> "none"]
    /\ ret = PyNone
    /\ raised = FALSE
    /\ calls = <<>>
    /\ tasks = <<>>

\* any configuration with chunk_size > overlap >= 0, small texts
ConfigInit ==
    /\ chunk_size \in 1..MaxSmallChunk
    /\ chunk_overlap \in 0..(chunk_size - 1)
    /\ text \in TextsOver({"x", ".", " "}, MaxSmallText)
    /\ start = 0
    /\ end = 0
    /\ chunks = <<>>
    /\ pc = "entry"
    /\ iterations = 0
    /\ IdleIndex

ConfigSpec == ConfigInit /\ [][SplitNext]_vars

\* t with the character at python index p replaced by c (t itself if p is
\* not an index of t)
Mark(t, p, c) == <<>> \o [i \in 1..Len(t) |-> IF i = p + 1 THEN c ELSE t[i]]

\* python indices around the first window's lookback limits, for
\* chunk_size 500: end - 100, end - 50, end, and the overlap's reach
CutPoints == {0, 399, 400, 401, 449, 450, 451, 498, 499, 500}

\* runs of x with up to two characters replaced by a terminator or a blank,
\* the empty text and a blank text
ChunkerTexts ==
    {<<>>, Fill(" ", ShortLen)} \cup
    {Mark(Mark(Fill("x", n), p, c), q, d) :
        n \in {MidLen, LongLen}, p \in CutPoints, q \in CutPoints,
        c \in {"x", ".", " "}, d \in {"x", ".", " "}}

\* the configured chunk_size and chunk_overlap, texts of several windows
ChunkerInit ==
    /\ chunk_size = 500
    /\ chunk_overlap = 50
    /\ text \in ChunkerTexts
    /\ start = 0
    /\ end = 0
    /\ chunks = <<>>
    /\ pc = "entry"
    /\ iterations = 0
    /\ IdleIndex

ChunkerSpec == ChunkerInit /\ [][SplitNext]_vars

\* _split_text is a sequential loop: a call that can take its next step
\* takes it
ChunkerFairSpec == ChunkerSpec /\ WF_vars(SplitNext)

----------------------------------------------------------------------------
(* The inputs the callers draw from.                                       *)

DocumentIds == {"a", "b"}

ShortText == <<"X", " ", "y", ".">>
MidText == Fill("x", MidLen) \o <<" ", "y", ".">>
LongText == Fill("x", LongLen)
OtherText == <<"z", " ", "w", ".">>
IndexTexts == {<<>>, Fill(" ", ShortLen), ShortText, LongText}
SearchTexts == {<<>>, ShortText, OtherText, MidText}

\* metadata=None is the empty map; the other map also names keys that
\* index_document sets itself
Metadatas ==
    {<<>>, [source |-> "upload", chunk_index |-> 7, document_id |-> "b"]}

QueryTexts == {<<>>, <<"X", " ", "y">>}
DocumentIdLists == {NoIds, Ids(<<>>), Ids(<<"a">>)}
MinConfidences == {Rat(-1, 1), Rat(1, 2), Rat(1, 1)}
Weights ==
    {<<Rat(3, 10), Rat(7, 10)>>, <<RInt(1), RInt(0)>>, <<RInt(0), RInt(1)>>,
     <<RInt(0), RInt(0)>>, <<RInt(1), RInt(1)>>}

----------------------------------------------------------------------------
(* The public operations as actions.  A call is taken when no call is      *)
(* outstanding; Return is its caller taking the result.                    *)

NoCall == [name |-> "none"]

Invoke(call, outcome) ==
    /\ op = NoCall
    /\ op' = call
    /\ \E out \in {outcome} :
          /\ ret' = out.ret
          /\ raised' = out.exc
          /\ calls' = out.calls
          /\ collection' = out.collection
    /\ UNCHANGED <<chunk_size, chunk_overlap, splitVars, tasks>>

IndexDocumentFrom(texts, metadatas) ==
    \E d \in DocumentIds, t \in texts, m \in metadatas,
       f \in {{}, {"encode"}, {"add"}} :
        /\ Invoke([name |-> "index_document", document_id |-> d, text |-> t,
                   metadata |-> m, faults |-> f],
                  index_document(d, t, m, f))
        /\ Len(collection') <= MaxRows

IndexDocument == IndexDocumentFrom(IndexTexts, Metadatas)

\* the documents searched
IndexDocumentPlain == IndexDocumentFrom(SearchTexts, {<<>>})

RemoveDocument ==
    \E d \in DocumentIds, f \in {{}, {"get"}, {"delete"}} :
        Invoke([name |-> "remove_document", document_id |-> d, faults |-> f],
               remove_document(d, f))

Query ==
    \E q \in QueryTexts, n \in 0..MaxResults, ds \in DocumentIdLists,
       c \in MinConfidences, f \in {{}, {"encode"}, {"query"}} :
        Invoke([name |-> "query", query_text |-> q, n_results |-> n,
                document_ids |-> ds, min_confidence |-> c, faults |-> f],
               query(q, n, ds, c, f))

HybridSearch ==
    \E q \in QueryTexts, n \in 0..MaxResults, ds \in DocumentIdLists,
       w \in Weights, f \in {{}, {"encode"}, {"get"}} :
        Invoke([name |-> "hybrid_search", query_text |-> q, n_results |-> n,
                document_ids |-> ds, keyword_weight |-> w[1],
                semantic_weight |-> w[2], faults |-> f],
               hybrid_search(q, n, ds, w[1], w[2], f))

GetDocumentChunks ==
    \E d \in DocumentIds, f \in {{}, {"get"}} :
        Invoke([name |-> "get_document_chunks", document_id |-> d,
                faults |-> f],
               get_document_chunks(d, f))

GetStats ==
    \E f \in {{}, {"count"}} :
        Invoke([name |-> "get_stats", faults |-> f], get_stats(f))

Return ==
    /\ op # NoCall
    /\ op' = NoCall
    /\ ret' = PyNone
    /\ raised' = FALSE
    /\ calls' = <<>>
    /\ UNCHANGED <<chunk_size, chunk_overlap, collection, splitVars, tasks>>

\* __init__: an empty collection, chunk_size = 500, chunk_overlap = 50
Init ==
    /\ chunk_size = 500
    /\ chunk_overlap = 50
    /\ IdleIndex
    /\ text = <<>>
    /\ start = 0
    /\ end = 0
    /\ chunks = <<>>
    /\ pc = "idle"
    /\ iterations = 0

\* indexing, removal and listing, with every text and metadata
Next ==
    \/ IndexDocument
    \/ RemoveDocument
    \/ GetDocumentChunks
    \/ GetStats
    \/ Return

Spec == Init /\ [][Next]_vars

\* every public operation, over plainly indexed documents
SearchNext ==
    \/ IndexDocumentPlain
    \/ RemoveDocument
    \/ Query
    \/ HybridSearch
    \/ GetDocumentChunks
    \/ GetStats
    \/ Return

SearchSpec == Init /\ [][SearchNext]_vars

----------------------------------------------------------------------------
(* The requests on the event loop.  index_document and query are           *)
(* coroutines (async def) and the application awaits them on one asyncio   *)
(* event loop.  The loop runs one coroutine at a time and takes another    *)
(* only where the running one suspends in an await; neither body has an    *)
(* await, and encode and add are called directly, so a coroutine that has  *)
(* started keeps the loop until it returns.  A task holds the request, the *)
(* position its coroutine has reached and, once done, its result.          *)

MaxTasks == 2          \* most requests given to the loop at one time

Task(request) == [request |-> request, pc |-> "pending", result |-> PyNone]

IndexRequests ==
    {[name |-> "index_document", document_id |-> d, text |-> t,
      faults |-> f] :
        d \in DocumentIds, t \in {<<>>, ShortText, OtherText},
        f \in {{}, {"encode"}, {"add"}}}

QueryRequests ==
    {[name |-> "query", query_text |-> q, n_results |-> n, faults |-> f] :
        q \in {<<"X", " ", "y">>}, n \in {1, MaxResults},
        f \in {{}, {"encode"}, {"query"}}}

\* the coroutine of task k has started and has not returned
Running(k) == tasks[k].pc \notin {"pending", "done"}

\* the loop is free to take task k, or is already inside it
OnLoop(k) == \A other \in (1..Len(tasks)) \ {k} : ~Running(other)

At(k, name, pc_) == tasks[k].request.name = name /\ tasks[k].pc = pc_

Moved(k, pc_) == [tasks EXCEPT ![k].pc = pc_]

Done(k, value) == [tasks EXCEPT ![k].pc = "done", ![k].result = value]

\* asyncio.create_task / asyncio.gather: a request is given to the loop
Submit ==
    /\ Len(tasks) < MaxTasks
    /\ \E request \in IndexRequests \cup QueryRequests :
          tasks' = Append(tasks, Task(request))
    /\ UNCHANGED <<chunk_size, chunk_overlap, splitVars, indexVars>>

\* index_document up to the encode call: the text is split, and nothing
\* more is done when there is no chunk
IndexStart(k) ==
    /\ At(k, "index_document", "pending")
    /\ OnLoop(k)
    /\ \E r \in {tasks[k].request} :
          \E sp \in {split_text(r.text, chunk_size, chunk_overlap)} :
              IF sp.raised \/ sp.chunks = <<>>
              THEN tasks' = Done(k, index_document(r.document_id, r.text,
                                                   <<>>, r.faults).ret)
              ELSE tasks' = Moved(k, "encode")
    /\ UNCHANGED <<chunk_size, chunk_overlap, splitVars, indexVars>>

\* self.embedding_model.encode(chunks), called on the loop's thread
IndexEncode(k) ==
    /\ At(k, "index_document", "encode")
    /\ OnLoop(k)
    /\ \E r \in {tasks[k].request} :
          IF "encode" \in r.faults
          THEN tasks' = Done(k, index_document(r.document_id, r.text, <<>>,
                                               r.faults).ret)
          ELSE tasks' = Moved(k, "add")
    /\ UNCHANGED <<chunk_size, chunk_overlap, splitVars, indexVars>>

\* self.collection.add(...), called on the loop's thread, and the return
IndexAdd(k) ==
    /\ At(k, "index_document", "add")
    /\ OnLoop(k)
    /\ \E r \in {tasks[k].request} :
          \E out \in {index_document(r.document_id, r.text, <<>>,
                                     r.faults)} :
              /\ tasks' = Done(k, out.ret)
              /\ collection' = out.collection
    /\ UNCHANGED <<chunk_size, chunk_overlap, splitVars, op, ret, raised,
                   calls>>

\* query up to and with self.embedding_model.encode([query_text])
QueryStart(k) ==
    /\ At(k, "query", "pending")
    /\ OnLoop(k)
    /\ \E r \in {tasks[k].request} :
          IF "encode" \in r.faults
          THEN tasks' = Done(k, query(r.query_text, r.n_results, NoIds,
                                      Rat(1, 2), r.faults).ret)
          ELSE tasks' = Moved(k, "search")
    /\ UNCHANGED <<chunk_size, chunk_overlap, splitVars, indexVars>>

\* self.collection.query(...), the processing of its rows, and the return
QuerySearch(k) ==
    /\ At(k, "query", "search")
    /\ OnLoop(k)
    /\ \E r \in {tasks[k].request} :
          tasks' = Done(k, query(r.query_text, r.n_results, NoIds,
                                 Rat(1, 2), r.faults).ret)
    /\ UNCHANGED <<chunk_size, chunk_overlap, splitVars, indexVars>>

\* the next step of the coroutine of task k
Advance(k) ==
    \/ IndexStart(k)
    \/ IndexEncode(k)
    \/ IndexAdd(k)
    \/ QueryStart(k)
    \/ QuerySearch(k)

\* the caller takes the results once every task is done
Gather ==
    /\ tasks # <<>>
    /\ \A k \in 1..Len(tasks) : tasks[k].pc = "done"
    /\ tasks' = <<>>
    /\ UNCHANGED <<chunk_size, chunk_overlap, splitVars, indexVars>>

LoopNext ==
    \/ Submit
    \/ \E k \in 1..Len(tasks) : IndexStart(k)
    \/ \E k \in 1..Len(tasks) : IndexEncode(k)
    \/ \E k \in 1..Len(tasks) : IndexAdd(k)
    \/ \E k \in 1..Len(tasks) : QueryStart(k)
    \/ \E k \in 1..Len(tasks) : QuerySearch(k)
    \/ Gather

LoopSpec == Init /\ [][LoopNext]_vars

----------------------------------------------------------------------------

(* The claims.                                                             *)

\* the document_id a stored row is filed under
DocumentIdOf(row) == row.metadata["document_id"]

\* the rows filed under d
RowsOf(coll, d) == SelectRows(coll, LAMBDA r : DocumentIdOf(r) = d)

Stored(coll) == {coll[i] : i \in 1..Len(coll)}

Failed(log) == \E i \in 1..Len(log) : ~log[i].ok
Issued(log, fn) == \E i \in 1..Len(log) : log[i].fn = fn

\* C1: after remove_document(d) returns true no stored chunk has
\* document_id d, every chunk filed under another document_id is stored as
\* before (same id, text, metadata), and get_document_chunks(d) on an index
\* without chunks of d returns the empty sequence.
C1_RemoveAllAndOnly ==
    [][/\ (RemoveDocument /\ ret' = PyBool(TRUE)) =>
            /\ RowsOf(collection', op'.document_id) = <<>>
            /\ \A r \in Stored(collection) :
                   DocumentIdOf(r) # op'.document_id
                       => r \in Stored(collection')
            /\ Stored(collection') \subseteq Stored(collection)
       /\ (GetDocumentChunks /\ RowsOf(collection, op'.document_id) = <<>>)
            => ret' = PyList(<<>>)
      ]_vars

\* a document with 3 chunks was removed and another document's chunk stays
C1_Witness ==
    /\ op.name = "remove_document"
    /\ ret = PyBool(TRUE)
    /\ Len(calls) = 2
    /\ Len(calls[2].arg.ids) = 3
    /\ collection # <<>>

\* C2: remove_document(d) on an index with no chunk filed under d returns
\* false, issues no delete and leaves the index as it was.
C2_RemoveNothing ==
    [][(RemoveDocument /\ RowsOf(collection, op'.document_id) = <<>>) =>
            /\ ret' = PyBool(FALSE)
            /\ ~Issued(calls', "delete")
            /\ collection' = collection
      ]_vars

\* remove_document found nothing to remove in a non-empty index
C2_Witness ==
    /\ op.name = "remove_document"
    /\ op.faults = {}
    /\ ret = PyBool(FALSE)
    /\ collection # <<>>
    /\ RowsOf(collection, op.document_id) = <<>>

\* C3: for each document_id with stored chunks, their chunk_index values
\* are exactly 0..N-1, without gap or duplicate.
C3_ContiguousIndices ==
    \A d \in {DocumentIdOf(r) : r \in Stored(collection)} :
        LET rows == RowsOf(collection, d)
        IN  /\ {rows[i].metadata["chunk_index"] : i \in 1..Len(rows)}
                   = 0..(Len(rows) - 1)
            /\ \A i, j \in 1..Len(rows) :
                   rows[i].metadata["chunk_index"]
                       = rows[j].metadata["chunk_index"] => i = j

\* C4: every result of query has 0 <= confidence <= 1.
C4_ConfidenceBounds ==
    op.name = "query" =>
        \A i \in 1..Len(ret.results) :
            /\ RLeq(RInt(0), ret.results[i].confidence)
            /\ RLeq(ret.results[i].confidence, RInt(1))

\* C5: when document_ids is supplied to query or hybrid_search (an empty
\* list included), every result is a chunk filed under one of them.
C5_RestrictedToDocumentIds ==
    (op.name \in {"query", "hybrid_search"} /\ op.document_ids.given) =>
        \A i \in 1..Len(ret.results) :
            \E k \in 1..Len(op.document_ids.ids) :
                op.document_ids.ids[k] = DocumentIdOf(ret.results[i])

\* C6: when a collaborator raises during query or hybrid_search, the
\* operation returns results = [] and an error message.
C6_ReadFailureResult ==
    (op.name \in {"query", "hybrid_search"} /\ op.faults # {} /\ Failed(calls))
        => (ret.results = <<>> /\ "error" \in DOMAIN ret)

\* text.strip() == "" (the empty text included)
Blank(t) == \A i \in 1..Len(t) : t[i] \in Whitespace

\* C7: index_document returns true only if chunking gave at least one chunk
\* and the embedding call and the bulk add both returned; when either raises
\* it returns false and raises nothing, and when the embedding call raises
\* no add is issued and the index is as it was.
C7_IndexOutcome ==
    [][IndexDocument =>
        /\ ret' = PyBool(TRUE) =>
              /\ split_text(op'.text, chunk_size, chunk_overlap).chunks # <<>>
              /\ Issued(calls', "encode") /\ Issued(calls', "add")
              /\ ~Failed(calls')
        /\ Failed(calls') => (ret' = PyBool(FALSE) /\ ~raised')
        /\ (\E i \in 1..Len(calls') :
                calls'[i].fn = "encode" /\ ~calls'[i].ok)
              => (~Issued(calls', "add") /\ collection' = collection)
      ]_vars

\* the embedding call raised while the index held rows
C7_Witness ==
    /\ op.name = "index_document"
    /\ Failed(calls)
    /\ ~Issued(calls, "add")
    /\ ret = PyBool(FALSE)
    /\ collection # <<>>

\* C8: index_document on an empty or whitespace-only text returns false,
\* calls neither collaborator, stores nothing and raises nothing.
C8_NoChunks ==
    [][(IndexDocument /\ Blank(op'.text)) =>
            /\ ret' = PyBool(FALSE)
            /\ calls' = <<>>
            /\ collection' = collection
            /\ ~raised'
      ]_vars

\* a whitespace-only text was indexed into a non-empty index
C8_Witness ==
    /\ op.name = "index_document"
    /\ op.text # <<>>
    /\ Blank(op.text)
    /\ op.faults = {}
    /\ ret = PyBool(FALSE)
    /\ collection # <<>>

C10_StartAdvances ==
    [][(SplitIterate /\ pc' = "while") => start' > start]_vars

\* a text of exactly 1000 characters without terminator or whitespace
Plain1000 ==
    /\ Len(text) = 1000
    /\ \A i \in 1..Len(text) :
           text[i] \notin sentence_endings \cup Whitespace

\* C11 (as the spec has it): with chunk_size 500 and overlap 50 such a
\* text gives exactly 2 chunks, the second starting at character 450.
C11_TwoChunks ==
    [][/\ (Plain1000 /\ SplitIterate /\ Len(chunks') = 2) => start = 450
       /\ (Plain1000 /\ SplitReturn) => Len(chunks) = 2
      ]_vars

\* C11 (amended): with chunk_size 500 and overlap 50 such a text gives
\* exactly 3 chunks, of characters 0..499, 450..949 and 900..999: the
\* second starts at character 450 and the third at character 900.
C11_ThreeChunks ==
    [][/\ (Plain1000 /\ SplitIterate /\ Len(chunks') = 2) => start = 450
       /\ (Plain1000 /\ SplitIterate /\ Len(chunks') = 3) => start = 900
       /\ (Plain1000 /\ SplitReturn) =>
             /\ Len(chunks) = 3
             /\ chunks[1] = SubSeq(text, 1, 500)
             /\ chunks[2] = SubSeq(text, 451, 950)
             /\ chunks[3] = SubSeq(text, 901, 1000)
      ]_vars

\* the 1000-character text was split and the split returned
C11_Witness ==
    /\ Plain1000
    /\ chunk_size = 500 /\ chunk_overlap = 50
    /\ pc = "return"
    /\ Len(chunks) = 3

\* the characters of python indices lo..hi-1 of text that are not whitespace
SolidIn(lo, hi) ==
    {i \in (lo + 1)..MinOf(hi, Len(text)) : text[i] \notin Whitespace}

\* chunk c is text[o : o + len(c)] and holds every position of the set
HeldAt(c, o, positions) ==
    /\ o + Len(c) <= Len(text)
    /\ SubSeq(text, o + 1, o + Len(c)) = c
    /\ \A i \in positions : o < i /\ i <= o + Len(c)

\* C12 (as the spec has it): when _split_text returns, every character of
\* the input is contained in at least one emitted chunk.
C12_EveryCharacter ==
    pc = "return" =>
        \A i \in 1..Len(text) :
            \E k \in 1..Len(chunks) :
                \E o \in 0..(Len(text) - Len(chunks[k])) :
                    HeldAt(chunks[k], o, {i})

\* C12 (amended): the first span starts at character 0, every later span
\* starts at or before the end of the span before it, the last span ends
\* at or after the end of the text, and each pass emits a chunk that holds
\* every character of its span text[start:end] that is not whitespace (no
\* chunk when the span has none): no character other than whitespace is
\* skipped.
C12_Coverage ==
    [][/\ SplitIterate =>
             /\ iterations = 0 => start = 0
             /\ iterations > 0 => (0 <= start /\ start <= end)
             /\ start < end'
             /\ IF SolidIn(start, end') = {} THEN chunks' = chunks
                ELSE /\ Len(chunks') = Len(chunks) + 1
                     /\ SubSeq(chunks', 1, Len(chunks)) = chunks
                     /\ \E o \in start..end' :
                            HeldAt(chunks'[Len(chunks')], o,
                                   SolidIn(start, end'))
       /\ SplitReturn => (text = <<>> \/ end >= Len(text))
      ]_vars

\* a split returned whose text has blanks at a cut and whose chunks hold all
\* the rest
C12_Witness ==
    /\ pc = "return"
    /\ Len(text) = LongLen
    /\ \E i \in 1..Len(text) : text[i] \in Whitespace
    /\ Len(chunks) = 3
    /\ Len(chunks[1]) < 500

\* the result sets of the two passes of the hybrid_search that op names
SemanticSet ==
    query(op.query_text, op.n_results * 2, op.document_ids, Rat(1, 2),
          op.faults).ret.results

KeywordSet ==
    keyword_search(op.query_text, op.n_results * 2, op.document_ids,
                   op.faults).ret

IdsOf(results) == {results[i].id : i \in 1..Len(results)}

\* the entry of a chunk id in a result list that holds it
Entry(results, id) ==
    results[CHOOSE i \in 1..Len(results) : results[i].id = id]

\* the python index of a chunk id in a result list, its length if absent
Position(results, id) ==
    IF id \in IdsOf(results)
    THEN (CHOOSE i \in 1..Len(results) : results[i].id = id) - 1
    ELSE Len(results)

\* hybrid_search returned its normal value
Fused == op.name = "hybrid_search" /\ "error" \notin DOMAIN ret

\* the fused candidate list, before hybrid_search cuts it
FusedList ==
    combine_search_results(SemanticSet, KeywordSet, op.keyword_weight,
                           op.semantic_weight).ret

\* C13: a chunk of both result sets scores at least as much as, and is
\* never cut by the truncation to n_results in favour of, a chunk of one
\* set only that has the same confidence in that set.
C13_FusionDominance ==
    Fused =>
        Let(SemanticSet, LAMBDA sem : Let(KeywordSet, LAMBDA key :
        Let(FusedList, LAMBDA fused :
            \A b \in IdsOf(sem) \cap IdsOf(key) :
                /\ \A c \in IdsOf(sem) \ IdsOf(key) :
                       Entry(sem, c).confidence = Entry(sem, b).confidence
                           => /\ RLeq(Entry(fused, c).combined_confidence,
                                      Entry(fused, b).combined_confidence)
                              /\ c \in IdsOf(ret.results)
                                     => b \in IdsOf(ret.results)
                /\ \A c \in IdsOf(key) \ IdsOf(sem) :
                       Entry(key, c).confidence = Entry(key, b).confidence
                           => /\ RLeq(Entry(fused, c).combined_confidence,
                                      Entry(fused, b).combined_confidence)
                              /\ c \in IdsOf(ret.results)
                                     => b \in IdsOf(ret.results))))

\* w_k' and w_s': the weights of the call divided by their sum
NormalKeywordWeight ==
    RDiv(op.keyword_weight, RAdd(op.keyword_weight, op.semantic_weight))
NormalSemanticWeight ==
    RDiv(op.semantic_weight, RAdd(op.keyword_weight, op.semantic_weight))

\* the combined score of chunk id, given the two result sets
CombinedScore(sem, key, id) ==
    IF id \in IdsOf(sem) /\ id \in IdsOf(key)
    THEN RAdd(RMul(Entry(sem, id).confidence, NormalSemanticWeight),
              RMul(Entry(key, id).confidence, NormalKeywordWeight))
    ELSE IF id \in IdsOf(sem)
    THEN RMul(Entry(sem, id).confidence, NormalSemanticWeight)
    ELSE RMul(Entry(key, id).confidence, NormalKeywordWeight)

\* C14: the results of hybrid_search hold each chunk id at most once, are
\* ordered by combined score descending, carry the score s*w_s' + k*w_k'
\* (one term only for a chunk of one set), and are the first n_results of
\* the candidates: no candidate left out scores more than one returned.
C14_FusedTopN ==
    Fused =>
        Let(SemanticSet, LAMBDA sem : Let(KeywordSet, LAMBDA key :
        Let(IdsOf(sem) \cup IdsOf(key), LAMBDA candidates :
            /\ Len(ret.results) = MinOf(op.n_results, Cardinality(candidates))
            /\ Cardinality(IdsOf(ret.results)) = Len(ret.results)
            /\ IdsOf(ret.results) \subseteq candidates
            /\ \A i \in 1..Len(ret.results) :
                   /\ ret.results[i].combined_confidence
                          = CombinedScore(sem, key, ret.results[i].id)
                   /\ i > 1 => RLeq(ret.results[i].combined_confidence,
                                    ret.results[i - 1].combined_confidence)
                   /\ \A c \in candidates \ IdsOf(ret.results) :
                          RLeq(CombinedScore(sem, key, c),
                               ret.results[i].combined_confidence))))

\* two results were returned, a third candidate was cut, and the first
\* result, of both sets, outscored a semantic neighbour as near as itself
C14_Witness ==
    /\ Fused
    /\ Len(ret.results) = 2
    /\ ret.semantic_count + ret.keyword_count > 2
    /\ RLess(RInt(0), ret.results[1].keyword_confidence)
    /\ ret.results[2].semantic_confidence = ret.results[1].semantic_confidence
    /\ RLess(ret.results[2].combined_confidence,
             ret.results[1].combined_confidence)

\* C15: with keyword_weight = 1 and semantic_weight = 0 the combined score
\* of every result of hybrid_search is its keyword confidence (0 for a
\* chunk the keyword search did not return), and the results are ordered
\* by keyword confidence.
C15_KeywordOnly ==
    (Fused /\ op.keyword_weight = RInt(1) /\ op.semantic_weight = RInt(0)) =>
        Let(KeywordSet, LAMBDA key :
            \A i \in 1..Len(ret.results) :
                /\ ret.results[i].combined_confidence
                       = ret.results[i].keyword_confidence
                /\ ret.results[i].keyword_confidence
                       = IF ret.results[i].id \in IdsOf(key)
                         THEN Entry(key, ret.results[i].id).confidence
                         ELSE RInt(0)
                /\ i > 1 => RLeq(ret.results[i].keyword_confidence,
                                 ret.results[i - 1].keyword_confidence))

\* a keyword-only call returned a keyword match and then a semantic
\* neighbour without one, scored 0
C15_Witness ==
    /\ Fused
    /\ op.keyword_weight = RInt(1)
    /\ op.semantic_weight = RInt(0)
    /\ Len(ret.results) = 2
    /\ RLess(RInt(0), ret.results[1].keyword_confidence)
    /\ RLess(RInt(0), ret.results[2].semantic_confidence)
    /\ ret.results[2].combined_confidence = RInt(0)

\* the stored row with chunk id id
RowOf(coll, id) == coll[CHOOSE k \in 1..Len(coll) : coll[k].id = id]

\* query returned its normal value
Answered == op.name = "query" /\ "error" \notin DOMAIN ret

\* C16: whatever min_confidence is, every result of query has
\* confidence >= min_confidence, where confidence is 1 - the cosine
\* distance between the query and the stored chunk.
C16_ThresholdRespected ==
    Answered =>
        \A i \in 1..Len(ret.results) :
            /\ RLeq(op.min_confidence, ret.results[i].confidence)
            /\ ret.results[i].confidence
                   = RSub(RInt(1),
                          CosineDistance(
                              Embed(op.query_text),
                              RowOf(collection, ret.results[i].id).embedding))

\* query asked for two neighbours with min_confidence 1, two were stored,
\* and only one was returned
C16_Witness ==
    /\ Answered
    /\ op.min_confidence = Rat(1, 1)
    /\ op.n_results = 2
    /\ ~Truthy(op.document_ids)
    /\ Len(collection) >= 2
    /\ Len(ret.results) = 1

\* C17: a stored chunk keeps its id, text and metadata in every step,
\* except a remove_document for its document_id; a second index_document
\* for the same document_id with another text leaves it as it was.
C17_NeverMutated ==
    [][\A r \in Stored(collection) :
           \/ r \in Stored(collection')
           \/ /\ RemoveDocument
              /\ op'.document_id = DocumentIdOf(r)
              /\ \A k \in 1..Len(collection') : collection'[k].id # r.id
      ]_vars

\* index_document returned true for a document_id whose first chunk was
\* stored before with another text, and the stored text is still there
C17_Witness ==
    /\ op.name = "index_document"
    /\ ret = PyBool(TRUE)
    /\ \E k \in 1..Len(collection) :
           /\ collection[k].id = ChunkId(op.document_id, 0)
           /\ collection[k].document
                  # split_text(op.text, chunk_size, chunk_overlap).chunks[1]

\* document ids, some of them shaped like chunk ids
IdLikeDocumentIds == {"a", "b", "a_chunk_0", "a_chunk_1", "a_chunk_"}

\* C18: the rows index_document hands to the bulk add have the ids
\* "{document_id}_chunk_{i}", i the zero-based position of the chunk; no
\* two stored chunks share an id; distinct (document_id, i) pairs give
\* distinct ids.
C18_ChunkIds ==
    [][/\ \A j, k \in 1..Len(collection') :
              collection'[j].id = collection'[k].id => j = k
       /\ (IndexDocument /\ ret' = PyBool(TRUE)) =>
            Let(split_text(op'.text, chunk_size, chunk_overlap).chunks,
            LAMBDA chs :
                Let(calls'[2].arg.rows, LAMBDA rows :
                    /\ \A d \in IdLikeDocumentIds : \A i, j \in 0..Len(chs) :
                           ChunkId(op'.document_id, i) = ChunkId(d, j)
                               => (op'.document_id = d /\ i = j)
                    /\ Len(rows) = Len(chs)
                    /\ \A i \in 1..Len(rows) :
                           /\ rows[i].id
                                  = op'.document_id \o "_chunk_"
                                        \o ToString(i - 1)
                           /\ rows[i].document = chs[i]
                    /\ \A r \in Stored(collection') \ Stored(collection) :
                           \E i \in 1..Len(rows) : rows[i] = r))
      ]_vars

\* a document of three chunks was indexed after another document
C18_Witness ==
    /\ op.name = "index_document"
    /\ ret = PyBool(TRUE)
    /\ Len(calls[2].arg.rows) = 3
    /\ Len(collection) > 3
    /\ collection[Len(collection)].id = op.document_id \o "_chunk_2"

\* what get_document_chunks(d) gives, d the document of the last call
ReadBack == get_document_chunks(op.document_id, {}).ret

\* C19: when index_document(d, text) has returned true on an index that
\* held no chunk of d, get_document_chunks(d) returns the chunks of d and
\* no other, by ascending chunk_index, and their texts are the chunks
\* _split_text(text) gave, in order.
C19_ChunksReadBack ==
    [][(/\ IndexDocument
        /\ ret' = PyBool(TRUE)
        /\ RowsOf(collection, op'.document_id) = <<>>) =>
            Let(split_text(op'.text, chunk_size, chunk_overlap).chunks,
            LAMBDA chs :
                Let(ReadBack'.list, LAMBDA got :
                    /\ Len(got) = Len(chs)
                    /\ \A i \in 1..Len(got) :
                           /\ got[i].document = chs[i]
                           /\ got[i].id = ChunkId(op'.document_id, i - 1)
                           /\ i > 1 => got[i - 1].metadata["chunk_index"]
                                           < got[i].metadata["chunk_index"]))
      ]_vars

\* C20: a successful index_document issues two collaborator calls: one
\* encode of the whole chunk list, in order, then one add whose i-th id,
\* text, metadata and vector are those of the i-th chunk.
C20_OneBatchOneAdd ==
    [][(IndexDocument /\ ret' = PyBool(TRUE)) =>
            Let(split_text(op'.text, chunk_size, chunk_overlap).chunks,
            LAMBDA chs :
                /\ Len(calls') = 2
                /\ calls'[1] = [fn |-> "encode", ok |-> TRUE,
                                arg |-> [sentences |-> chs]]
                /\ calls'[2].fn = "add"
                /\ calls'[2].ok
                /\ Let(calls'[2].arg.rows, LAMBDA rows :
                       /\ Len(rows) = Len(chs)
                       /\ \A i \in 1..Len(rows) :
                              /\ rows[i].id = ChunkId(op'.document_id, i - 1)
                              /\ rows[i].document = chs[i]
                              /\ rows[i].embedding = Embed(chs[i])
                              /\ rows[i].metadata["chunk_text"]
                                     = ChunkText(chs[i])
                              /\ "chunk_index" \notin DOMAIN op'.metadata
                                     => rows[i].metadata["chunk_index"]
                                            = i - 1))
      ]_vars

\* a text of three chunks, whose vectors differ, was indexed
C20_Witness ==
    /\ op.name = "index_document"
    /\ ret = PyBool(TRUE)
    /\ Len(calls) = 2
    /\ Len(calls[1].arg.sentences) = 3
    /\ Len(calls[2].arg.rows) = 3
    /\ calls[2].arg.rows[1].embedding # calls[2].arg.rows[3].embedding

\* the terms of the query of the call: query_text.lower().split()
QueryTerms == SplitWords(Lower(op.query_text))

\* the raw score of a chunk text: every term's number of occurrences in
\* the lower-cased text, summed over the terms
RawScore(document) ==
    Let(Lower(document), LAMBDA doc_lower :
        Let(<<>> \o [t \in 1..Len(QueryTerms) |->
                Count(doc_lower, QueryTerms[t])],
        LAMBDA counts :
            Cardinality({<<t, c>> \in (1..Len(counts)) \X (1..Len(document)) :
                            c <= counts[t]})))

\* hybrid_search ran its keyword search and the index answered
KeywordSearched == op.name = "hybrid_search" /\ "get" \notin op.faults

\* C21: _keyword_search returns, by descending raw score, the n_results
\* highest scoring chunks of those with score > 0; the score is the sum
\* over the query terms of the term's occurrences in the lower-cased text
\* and the confidence is min(score / number of terms, 1).
C21_KeywordRanking ==
    KeywordSearched =>
        Let(KeywordSet, LAMBDA key :
        Let(CollGet(collection, WhereClause(op.document_ids)),
        LAMBDA all_docs :
        Let({i \in 1..Len(all_docs) : RawScore(all_docs[i].document) > 0},
        LAMBDA hit :
            /\ Len(key) = MinOf(op.n_results * 2, Cardinality(hit))
            /\ Cardinality(IdsOf(key)) = Len(key)
            /\ \A k \in 1..Len(key) :
                   /\ \E i \in hit :
                          /\ all_docs[i].id = key[k].id
                          /\ all_docs[i].document = key[k].document
                   /\ key[k].score = RawScore(key[k].document)
                   /\ key[k].confidence
                          = RMin(Rat(key[k].score, Len(QueryTerms)), RInt(1))
                   /\ k > 1 => key[k].score <= key[k - 1].score
                   /\ \A i \in hit :
                          all_docs[i].id \notin IdsOf(key)
                              => RawScore(all_docs[i].document)
                                     <= key[k].score)))

\* three chunks matched and the two returned both have confidence 1, yet
\* the higher score, stored later, comes first and one chunk was cut
C21_Witness ==
    /\ KeywordSearched
    /\ op.n_results = 1
    /\ Len(KeywordSet) = 2
    /\ Len(collection) >= 3
    /\ \A i \in 1..Len(collection) : RawScore(collection[i].document) > 0
    /\ KeywordSet[1].confidence = RInt(1)
    /\ KeywordSet[2].confidence = RInt(1)
    /\ KeywordSet[1].score > KeywordSet[2].score
    /\ \E i, j \in 1..Len(collection) :
           /\ i < j
           /\ collection[j].id = KeywordSet[1].id
           /\ collection[i].id = KeywordSet[2].id

\* what the Vector Index returned to the query of the call
Retrieved ==
    CollQuery(collection, Embed(op.query_text), op.n_results,
              WhereClause(op.document_ids))

\* C22: the results of query are in descending order of confidence, and
\* results of equal confidence are in the order the Vector Index returned
\* them.
C22_StableDescending ==
    Answered =>
        Let(Retrieved, LAMBDA retrieved :
            \A i, j \in 1..Len(ret.results) :
                i < j =>
                    /\ RLeq(ret.results[j].confidence,
                            ret.results[i].confidence)
                    /\ ret.results[i].confidence = ret.results[j].confidence
                           => Position(retrieved, ret.results[i].id)
                                  < Position(retrieved, ret.results[j].id))

\* query returned two results of equal confidence
C22_Witness ==
    /\ Answered
    /\ Len(ret.results) = 2
    /\ ret.results[1].confidence = ret.results[2].confidence
    /\ ret.results[1].id # ret.results[2].id

----------------------------------------------------------------------------
\* the request of task j has nothing to do with the document of task i
Unrelated(i, j) ==
    \/ tasks[j].request.name = "query"
    \/ /\ tasks[j].request.name = "index_document"
       /\ tasks[j].request.document_id # tasks[i].request.document_id

\* C23: while an index_document request is between its start and its
\* completion (at its embedding call or at its add), a pending query, or a
\* pending index_document for another document, can start
C23_NoSerialization ==
    \A i, j \in 1..Len(tasks) :
        ( /\ i # j
          /\ tasks[i].request.name = "index_document"
          /\ Running(i)
          /\ tasks[j].pc = "pending"
          /\ Unrelated(i, j) )
        => ENABLED Advance(j)

----------------------------------------------------------------------------
\* a pass of the while loop has been made and the loop goes on
Passed == pc = "while" /\ pc' = "while" /\ iterations' = iterations + 1

\* the window of the pass ends at start + chunk_size
WindowEnd == start + chunk_size

\* the python indices lo..hi of the text that hold a character of set
Holding(set, lo, hi) ==
    {i \in MaxOf(lo, start)..hi : i < Len(text) /\ PyAt(text, i) \in set}

\* the cut of a pass, given the sentence endings and the blanks to use
CutGiven(sentences, blanks) ==
    IF sentences # {} THEN SetMax(sentences) + 1
    ELSE IF blanks # {} THEN SetMax(blanks)
    ELSE WindowEnd

\* C24 as stated: the sentence ending nearest the window's end among the
\* last 100 characters of the window (indices end - 100 .. end - 1), else
\* the blank nearest the end among its last 50, else start + chunk_size
C24_CutInsideWindow ==
    [][Passed /\ WindowEnd < Len(text) =>
        end' = CutGiven(
                   Holding(sentence_endings, WindowEnd - 100, WindowEnd - 1),
                   Holding({" ", "\n"}, WindowEnd - 50, WindowEnd - 1))]_vars

\* C24: when the window ends before the end of the text, the cut is
\* immediately after the sentence ending nearest start + chunk_size among
\* the 100 indices end - 99 .. end (not before start + 1), an ending that
\* is the last character of the text not counting; only when there is none,
\* at the blank or newline nearest among the 50 indices end - 49 .. end;
\* only when there is neither, at start + chunk_size
C24_CutRule ==
    [][Passed /\ WindowEnd < Len(text) =>
        end' = CutGiven(
                   {i \in Holding(sentence_endings, MaxOf(start + 1,
                                  WindowEnd - 99), WindowEnd) :
                        i + 1 < Len(text)},
                   Holding({" ", "\n"}, MaxOf(start + 1, WindowEnd - 49),
                           WindowEnd))]_vars

\* the first pass cut after a sentence ending although a blank lay nearer
\* the end of the window
C24_Witness ==
    /\ pc = "while" /\ iterations = 1
    /\ end = 450
    /\ PyAt(text, 449) = "."
    /\ PyAt(text, 499) = " "

----------------------------------------------------------------------------
\* C25: after a pass whose cut is before the end of the text the next
\* window starts at cut - overlap; after a pass whose cut reached or passed
\* the end of the text the next start is the cut, and from there the loop
\* is left without another chunk
C25_NextStart ==
    [][ /\ Passed =>
            IF end' < Len(text) THEN start' = end' - chunk_overlap
            ELSE start' = end'
        /\ (pc = "while" /\ end >= Len(text) /\ iterations > 0) =>
            (pc' = "return" /\ chunks' = chunks) ]_vars

\* a text of two windows has been split: the second start was the first
\* cut less the overlap, and the last start is the last cut
C25_Witness ==
    /\ pc = "return"
    /\ iterations = 2
    /\ Len(chunks) = 2
    /\ start = end
    /\ end >= Len(text)
    /\ Len(chunks[1]) + Len(chunks[2]) > Len(text)

----------------------------------------------------------------------------
\* C26: whatever metadata the caller gives, each chunk index_document(d,
\* text, metadata) hands to the store has metadata document_id = d and
\* chunk_index = its position, and a chunk it newly stored is among the
\* rows filed under d, those remove_document(d) and get_document_chunks(d)
\* get
C26_ReservedKeysKept ==
    [][(IndexDocument /\ ret' = PyBool(TRUE)) =>
          Let(calls'[2].arg.rows, LAMBDA rows :
              \A i \in 1..Len(rows) :
                  /\ rows[i].metadata["document_id"] = op'.document_id
                  /\ rows[i].metadata["chunk_index"] = i - 1
                  /\ rows[i].id \notin IdSet(collection) =>
                        rows[i].id \in IdSet(CollGet(collection',
                                           WhereEq(op'.document_id))))
      ]_vars

----------------------------------------------------------------------------
\* every stored row is filed under the document and the index of its id
WellFiled(coll) ==
    \A k \in 1..Len(coll) :
        coll[k].id = ChunkId(DocumentIdOf(coll[k]),
                             coll[k].metadata["chunk_index"])

\* the chunks of d in the store, each with its chunk_index
ChunksOf(coll, d) ==
    {<<row.metadata["chunk_index"], row.document>> :
        row \in Stored(RowsOf(coll, d))}

\* C27: when index_document(d, text2) returns true on an index that holds
\* chunks of d from an earlier index_document, the chunks stored for d are
\* those of _split_text(text2), and no other
C27_ReindexReplaces ==
    [][(/\ IndexDocument
        /\ ret' = PyBool(TRUE)
        /\ op'.metadata = <<>>
        /\ WellFiled(collection)
        /\ RowsOf(collection, op'.document_id) # <<>>) =>
            Let(split_text(op'.text, chunk_size, chunk_overlap).chunks,
            LAMBDA chs :
                ChunksOf(collection', op'.document_id)
                    = {<<i - 1, chs[i]>> : i \in 1..Len(chs)})
      ]_vars

----------------------------------------------------------------------------
\* C28: with chunk_size = 500 and chunk_overlap = 50 every pass of the
\* loop moves start forward by at least 352, start is never negative, and
\* every call returns
C28_Progress ==
    /\ [][Passed => (start >= 0 /\ start' >= start + 352)]_vars
    /\ <>(pc = "return")

\* a first pass that moved start by exactly 352: the cut is after a
\* sentence ending 99 before the window end, and the overlap is taken off
C28_Witness ==
    /\ pc = "while"
    /\ iterations = 1
    /\ start = 352
    /\ start < Len(text)

----------------------------------------------------------------------------
\* C29: every chunk emitted has at most chunk_size + 1 characters; a pass
\* cuts at most one character past its window, and only immediately after
\* a sentence ending found at index start + chunk_size
C29_ChunkLength ==
    [][Passed =>
         /\ end' <= WindowEnd + 1
         /\ end' > WindowEnd => PyAt(text, WindowEnd) \in sentence_endings
         /\ \A i \in 1..Len(chunks') : Len(chunks'[i]) <= chunk_size + 1
         /\ \A i \in 1..Len(chunks') :
                Len(chunks'[i]) > chunk_size =>
                    chunks'[i][chunk_size + 1] \in sentence_endings
      ]_vars

\* a first chunk of chunk_size + 1 characters, cut after the sentence
\* ending at index start + chunk_size
C29_Witness ==
    /\ pc = "while"
    /\ iterations = 1
    /\ end = chunk_size + 1
    /\ Len(chunks) = 1
    /\ Len(chunks[1]) = chunk_size + 1

----------------------------------------------------------------------------
\* C30: with keyword_weight = 1 and semantic_weight = 0 every chunk that
\* hybrid_search returns has a keyword match: its keyword_confidence is
\* above 0 and the keyword pass found it
C30_KeywordMatchesOnly ==
    ( /\ Fused
      /\ op.faults = {}
      /\ op.keyword_weight = RInt(1)
      /\ op.semantic_weight = RInt(0) ) =>
        \A i \in 1..Len(ret.results) :
            /\ RLess(RInt(0), ret.results[i].keyword_confidence)
            /\ ret.results[i].id \in IdsOf(KeywordSet)

====
